---- MODULE Spec2Model ----
(***************************************************************************)
(* A model of the website copy pipeline (backend.py) and of the Streamlit  *)
(* page that drives it (frontend.py).                                       *)
(*                                                                         *)
(* Text is modelled as a sequence of string tokens.  A reply of the        *)
(* external text-generation service is opaque to the program; it is        *)
(* modelled as a record naming the call that produced it, so that the      *)
(* threading of one stage's output into the next stage's prompt can be     *)
(* followed.  An optional value (Python's None or a value) is a sequence   *)
(* of length 0 or 1.  A dict is a sequence of [k, v] records in insertion  *)
(* order with pairwise distinct keys.                                      *)
(***************************************************************************)
EXTENDS Naturals, Sequences, FiniteSets

VARIABLES
    session,        \* st.session_state: generated_copy, generation_complete
    view,           \* what the last run of the page rendered
    caller,         \* who called generate_website_copy: "frontend" or "direct"
    usp_arg,        \* the unique_selling_points argument given to CopyInput(...)
    copy_input,     \* the CopyInput of the current run
    sections,       \* the sections argument of the current run
    pc,             \* position inside generate_website_copy / its caller
    idx,            \* position of the for loop in sections
    research,       \* local variable research (optional)
    strategy,       \* local variable strategy (optional)
    initial_copy,   \* local variable initial_copy (optional)
    section_copy,   \* local dict section_copy
    calls,          \* the service calls made by the current run, in order
    exc,            \* the exception in flight inside the try block (optional)
    catches,        \* how many except handlers the exception of this run entered
    returned,       \* return value of generate_website_copy (optional)
    raised          \* message of the exception leaving generate_website_copy (optional)

vars == <<session, view, caller, usp_arg, copy_input, sections, pc, idx,
          research, strategy, initial_copy, section_copy, calls, exc, catches,
          returned, raised>>

runvars == <<caller, usp_arg, copy_input, sections, idx, research,
             strategy, initial_copy, section_copy, calls, exc, catches,
             returned, raised>>

(***************************************************************************)
(* Bounds of the model and the sets inputs are drawn from.                 *)
(***************************************************************************)
MaxSections == 2
MaxUsps == 2

Products == {"", "acme"}
Audiences == {"", "devs"}
UspPool == <<"fast", "local", "free", "open", "safe">>
DirectSectionNames == {"homepage", "about"}
CustomInputs == {"", "Pricing", "homepage"}
ServiceErrors == {<<"timeout">>, <<"quota">>}

SeqsUpTo(S, n) == UNION {[1..k -> S] : k \in 0..n}

None == <<>>
Some(x) == <<x>>

(***************************************************************************)
(* CopyInput (backend.py, lines 22-33).                                    *)
(***************************************************************************)
\* The unique_selling_points argument as a caller writes it: left out,
\* None, or a list.
UspLists == {SubSeq(UspPool, 1, n) : n \in 0..MaxUsps}
UspArgs == {[kind |-> "omitted", val |-> <<>>], [kind |-> "None", val |-> <<>>]}
             \cup {[kind |-> "list", val |-> l] : l \in UspLists}

\* The dataclass default of the field: unique_selling_points: List[str] = None.
UspField(arg) == IF arg.kind = "list" THEN Some(arg.val) ELSE None

\* Python truth value of an optional list: None and [] are false.
Truthy(opt) == opt # None /\ opt[1] # <<>>

\* A __post_init__ that keeps the field as it was given.
PostInitKeep(opt) == opt

\* self.unique_selling_points = self.unique_selling_points or []
PostInit(opt) == IF Truthy(opt) THEN opt ELSE Some(<<>>)

CopyInput(product, tone, length, industry, target_audience, brand_voice, arg) ==
    [product |-> product, tone |-> tone, length |-> length,
     industry |-> industry, target_audience |-> target_audience,
     brand_voice |-> brand_voice,
     unique_selling_points |-> PostInit(UspField(arg))]

(***************************************************************************)
(* str.join, and the prompt fields each stage hands to the service.        *)
(***************************************************************************)
RECURSIVE Join(_, _)
\* sep.join(l): the elements in order, sep between neighbours.
Join(sep, l) ==
    IF l = <<>> THEN <<>>
    ELSE IF Len(l) = 1 THEN <<l[1]>>
    ELSE <<l[1], sep>> \o Join(sep, Tail(l))

\* ", ".join(copy_input.unique_selling_points)
UspsText(ci) == Join(", ", ci.unique_selling_points[1])

ResearchArgs(ci) ==
    [industry |-> ci.industry, product |-> ci.product,
     audience |-> ci.target_audience]

StrategyArgs(research_data, ci) ==
    [research |-> research_data, product |-> ci.product, tone |-> ci.tone,
     usps |-> UspsText(ci)]

\* A drafting prompt that is handed the research text in place of the strategy.
DraftArgsResearch(strat, section, ci) ==
    [length |-> ci.length, tone |-> ci.tone, strategy |-> research[1],
     section |-> section, product |-> ci.product,
     brand_voice |-> ci.brand_voice, usps |-> UspsText(ci)]

DraftArgs(strat, section, ci) ==
    [length |-> ci.length, tone |-> ci.tone, strategy |-> strat,
     section |-> section, product |-> ci.product,
     brand_voice |-> ci.brand_voice, usps |-> UspsText(ci)]

EditorArgs(copy) == [copy |-> copy]

(***************************************************************************)
(* The external service: the k-th call of a run answers with a text of its *)
(* own, or fails with an error that has a description.                     *)
(***************************************************************************)
Reply(k) == [call |-> k]

Outcomes(k) == {[ok |-> TRUE, text |-> Reply(k), err |-> <<>>]}
                 \cup {[ok |-> FALSE, text |-> Reply(0), err |-> e] :
                          e \in ServiceErrors}

NoSection == ""

Call(stage, section, args, o) ==
    [stage |-> stage, section |-> section, args |-> args, ok |-> o.ok,
     text |-> o.text, err |-> o.err]

(***************************************************************************)
(* dict assignment, section_copy[section] = final_copy.                    *)
(***************************************************************************)
DictKeys(d) == [j \in 1..Len(d) |-> d[j].k]

HasKey(d, key) == \E j \in 1..Len(d) : d[j].k = key

DictGet(d, key) == d[CHOOSE j \in 1..Len(d) : d[j].k = key].v

\* An assignment that adds an entry even when the key is already there.
DictAppend(d, key, val) == Append(d, [k |-> key, v |-> val])

\* d[key] = val: a present key keeps its place and takes the new value, a new
\* key goes to the end.
DictSet(d, key, val) ==
    IF HasKey(d, key)
    THEN [j \in 1..Len(d) |-> IF d[j].k = key THEN [k |-> key, v |-> val] ELSE d[j]]
    ELSE Append(d, [k |-> key, v |-> val])

(***************************************************************************)
(* Exceptions (backend.py, lines 160-161).                                 *)
(***************************************************************************)
FailedPrefix == "Copy generation failed: "

\* A wrapper that drops the cause's description.
WrapBare(desc) == <<FailedPrefix>>

\* Exception(f"Copy generation failed: {str(e)}")
Wrap(desc) == <<FailedPrefix>> \o desc

\* A stage that catches the failure of its call and raises a wrapped one.
StageRaiseWrapped(desc) == <<FailedPrefix>> \o desc

\* A stage has no try block: the exception of chain.invoke leaves it as it is.
StageRaise(desc) == desc

(***************************************************************************)
(* The page (frontend.py): its widgets and what it makes of them.          *)
(***************************************************************************)
\* str.lower() on the strings the page applies it to.
Lower(str) ==
    CASE str = "Homepage" -> "homepage"
      [] str = "About" -> "about"
      [] str = "Services" -> "services"
      [] str = "Contact" -> "contact"
      [] str = "Pricing" -> "pricing"
      [] str = "Professional" -> "professional"
      [] str = "Medium" -> "medium"
      [] OTHER -> str

\* The keys of standard_sections, in the order of the dict.
StandardSections == <<"Homepage", "About", "Services", "Contact">>

\* The slider defaults, value="Professional" and value="Medium".
ToneDefault == "Professional"
LengthDefault == "Medium"

\* number_input("Number of USPs", min_value=1, max_value=5)
MaxUspCount == 5

\* The usps list: one text_input per USP, the empty ones left out.
FrontendUsps == {l \in UspLists : Len(l) <= MaxUspCount}

RECURSIVE CheckedFrom(_, _)
\* The loop over the checkboxes from the i-th on: the lower-cased names of
\* the ticked ones, in the order of standard_sections.
CheckedFrom(i, ticked) ==
    IF i > Len(StandardSections) THEN <<>>
    ELSE (IF ticked[i] THEN <<Lower(StandardSections[i])>> ELSE <<>>)
           \o CheckedFrom(i + 1, ticked)

\* sections as the page builds it: the ticked standard sections, then the
\* custom section if one is typed in.
FrontendSections(ticked, custom) ==
    IF custom # "" THEN Append(CheckedFrom(1, ticked), Lower(custom))
    ELSE CheckedFrom(1, ticked)

\* disabled = not (product and target_audience)
ButtonEnabled(product, target_audience) == product # "" /\ target_audience # ""

ErrorPrefix == "Error generating copy: "

Rendered(kind, msg) == [kind |-> kind, msg |-> msg]

\* The part of main() after the button: the tabs when generation_complete.
Display(s) == IF s.generation_complete THEN Rendered("results", <<>>)
              ELSE Rendered("form", <<>>)

(***************************************************************************)
(* The state after construction: init_session_state has run, no call of    *)
(* generate_website_copy is in progress.                                   *)
(***************************************************************************)
NoInput == CopyInput("", "", "", "", "", "", [kind |-> "omitted", val |-> <<>>])

RunReset ==
    /\ caller' = "none"
    /\ usp_arg' = [kind |-> "omitted", val |-> <<>>]
    /\ copy_input' = NoInput
    /\ sections' = <<>>
    /\ idx' = 1
    /\ research' = None
    /\ strategy' = None
    /\ initial_copy' = None
    /\ section_copy' = <<>>
    /\ calls' = <<>>
    /\ exc' = None
    /\ catches' = 0
    /\ returned' = None
    /\ raised' = None

Init ==
    /\ session = [generated_copy |-> <<>>, generation_complete |-> FALSE]
    /\ view = Rendered("form", <<>>)
    /\ caller = "none"
    /\ usp_arg = [kind |-> "omitted", val |-> <<>>]
    /\ copy_input = NoInput
    /\ sections = <<>>
    /\ pc = "idle"
    /\ idx = 1
    /\ research = None
    /\ strategy = None
    /\ initial_copy = None
    /\ section_copy = <<>>
    /\ calls = <<>>
    /\ exc = None
    /\ catches = 0
    /\ returned = None
    /\ raised = None

\* Entering generate_website_copy(ci, secs): the try block starts.
Enter(who, arg, ci, secs) ==
    /\ caller' = who
    /\ usp_arg' = arg
    /\ copy_input' = ci
    /\ sections' = secs
    /\ pc' = "research"
    /\ idx' = 1
    /\ research' = None
    /\ strategy' = None
    /\ initial_copy' = None
    /\ section_copy' = <<>>
    /\ calls' = <<>>
    /\ exc' = None
    /\ catches' = 0
    /\ returned' = None
    /\ raised' = None

(***************************************************************************)
(* Callers.                                                                *)
(***************************************************************************)
\* A program that builds a CopyInput and calls generate_website_copy itself,
\* as the __main__ block of backend.py does.
DirectCall ==
    /\ pc = "idle"
    /\ \E p \in Products, a \in Audiences, arg \in UspArgs,
          secs \in SeqsUpTo(DirectSectionNames, MaxSections) :
          Enter("direct", arg, CopyInput(p, "", "", "", a, "", arg), secs)
    /\ UNCHANGED <<session, view>>

\* The __main__ block prints the results or the error.
DirectDone ==
    /\ pc \in {"returned", "raised"}
    /\ caller = "direct"
    /\ pc' = "idle"
    /\ RunReset
    /\ UNCHANGED <<session, view>>

\* A run of the page in which the Generate button was pressed, up to the
\* call of generate_website_copy.
FrontendGenerate ==
    /\ pc = "idle"
    /\ \E p \in Products, a \in Audiences, l \in FrontendUsps,
          ticked \in [1..Len(StandardSections) -> BOOLEAN],
          custom \in CustomInputs :
          /\ ButtonEnabled(p, a)
          /\ Len(FrontendSections(ticked, custom)) <= MaxSections
          /\ IF p = "" \/ a = ""
             THEN /\ view' = Rendered("error", <<"Please fill in all required fields marked with *">>)
                  /\ UNCHANGED <<pc, runvars>>
             ELSE /\ Enter("frontend", [kind |-> "list", val |-> l],
                           CopyInput(p, Lower(ToneDefault), Lower(LengthDefault),
                                     "", a, "", [kind |-> "list", val |-> l]),
                           FrontendSections(ticked, custom))
                  /\ UNCHANGED view
    /\ UNCHANGED session

\* A run of the page without the button pressed.
FrontendRerun ==
    /\ pc = "idle"
    /\ view' = Display(session)
    /\ UNCHANGED <<session, pc, runvars>>

(***************************************************************************)
(* generate_website_copy (backend.py, lines 144-161), one step per stage   *)
(* call.  A stage builds its prompt fields, calls the service once and     *)
(* returns result.content; it has no try block.                            *)
(***************************************************************************)
\* ", ".join(None) raises before the service is called.
JoinError == <<"can only join an iterable">>

\* research = self.agents["research"].analyze_target_audience(copy_input)
Research ==
    /\ pc = "research"
    /\ \E o \in Outcomes(Len(calls) + 1) :
          /\ calls' = Append(calls, Call("research", NoSection,
                                         ResearchArgs(copy_input), o))
          /\ IF o.ok
             THEN research' = Some(o.text) /\ pc' = "strategy" /\ exc' = exc
             ELSE research' = research /\ pc' = "except"
                  /\ exc' = Some(StageRaise(o.err))
    /\ UNCHANGED <<session, view, caller, usp_arg, copy_input, sections,
                   idx, strategy, initial_copy, section_copy, catches,
                   returned, raised>>

\* A strategy stage that swallows a failure and carries on with the research
\* text as the strategy.
StrategySwallow ==
    /\ pc = "strategy"
    /\ \E o \in Outcomes(Len(calls) + 1) :
          /\ calls' = Append(calls, Call("strategy", NoSection,
                                         StrategyArgs(research[1], copy_input), o))
          /\ strategy' = IF o.ok THEN Some(o.text) ELSE research
          /\ pc' = "loop"
          /\ exc' = exc
    /\ UNCHANGED <<session, view, caller, usp_arg, copy_input, sections,
                   idx, research, initial_copy, section_copy, catches,
                   returned, raised>>

\* strategy = self.agents["strategy"].create_content_strategy(research, copy_input)
Strategy ==
    /\ pc = "strategy"
    /\ IF copy_input.unique_selling_points = None
       THEN /\ calls' = calls /\ strategy' = strategy /\ pc' = "except"
            /\ exc' = Some(StageRaise(JoinError))
       ELSE \E o \in Outcomes(Len(calls) + 1) :
              /\ calls' = Append(calls, Call("strategy", NoSection,
                                   StrategyArgs(research[1], copy_input), o))
              /\ IF o.ok
                 THEN strategy' = Some(o.text) /\ pc' = "loop" /\ exc' = exc
                 ELSE strategy' = strategy /\ pc' = "except"
                      /\ exc' = Some(StageRaise(o.err))
    /\ UNCHANGED <<session, view, caller, usp_arg, copy_input, sections,
                   idx, research, initial_copy, section_copy, catches,
                   returned, raised>>

\* A loop that gives up a section whose draft failed and goes on with the next.
DraftSkipOnFail ==
    /\ pc = "loop"
    /\ idx <= Len(sections)
    /\ \E o \in Outcomes(Len(calls) + 1) :
          /\ calls' = Append(calls, Call("draft", sections[idx],
                               DraftArgs(strategy[1], sections[idx], copy_input), o))
          /\ IF o.ok
             THEN initial_copy' = Some(o.text) /\ pc' = "edit" /\ idx' = idx
             ELSE initial_copy' = initial_copy /\ pc' = "loop" /\ idx' = idx + 1
          /\ exc' = exc
    /\ UNCHANGED <<session, view, caller, usp_arg, copy_input, sections,
                   research, strategy, section_copy, catches, returned, raised>>

\* for section in sections:
\*     initial_copy = self.agents["copywriting"].write_website_copy(strategy, section, copy_input)
Draft ==
    /\ pc = "loop"
    /\ idx <= Len(sections)
    /\ IF copy_input.unique_selling_points = None
       THEN /\ calls' = calls /\ initial_copy' = initial_copy /\ pc' = "except"
            /\ exc' = Some(StageRaise(JoinError))
       ELSE \E o \in Outcomes(Len(calls) + 1) :
              /\ calls' = Append(calls, Call("draft", sections[idx],
                                   DraftArgs(strategy[1], sections[idx], copy_input), o))
              /\ IF o.ok
                 THEN initial_copy' = Some(o.text) /\ pc' = "edit" /\ exc' = exc
                 ELSE initial_copy' = initial_copy /\ pc' = "except"
                      /\ exc' = Some(StageRaise(o.err))
    /\ UNCHANGED <<session, view, caller, usp_arg, copy_input, sections,
                   idx, research, strategy, section_copy, catches, returned,
                   raised>>

\* A loop that builds the strategy again after every section.
EditThenStrategy ==
    /\ pc = "edit"
    /\ \E o \in Outcomes(Len(calls) + 1) :
          /\ calls' = Append(calls, Call("edit", sections[idx],
                                         EditorArgs(initial_copy[1]), o))
          /\ IF o.ok
             THEN /\ section_copy' = DictSet(section_copy, sections[idx], o.text)
                  /\ idx' = idx + 1 /\ pc' = "strategy" /\ exc' = exc
             ELSE /\ section_copy' = section_copy /\ idx' = idx
                  /\ pc' = "except" /\ exc' = Some(StageRaise(o.err))
    /\ UNCHANGED <<session, view, caller, usp_arg, copy_input, sections,
                   research, strategy, initial_copy, catches, returned, raised>>

\*     final_copy = self.agents["editor"].review_copy(initial_copy)
\*     section_copy[section] = final_copy
Edit ==
    /\ pc = "edit"
    /\ \E o \in Outcomes(Len(calls) + 1) :
          /\ calls' = Append(calls, Call("edit", sections[idx],
                                         EditorArgs(initial_copy[1]), o))
          /\ IF o.ok
             THEN /\ section_copy' = DictSet(section_copy, sections[idx], o.text)
                  /\ idx' = idx + 1 /\ pc' = "loop" /\ exc' = exc
             ELSE /\ section_copy' = section_copy /\ idx' = idx
                  /\ pc' = "except" /\ exc' = Some(StageRaise(o.err))
    /\ UNCHANGED <<session, view, caller, usp_arg, copy_input, sections,
                   research, strategy, initial_copy, catches, returned, raised>>

\* return section_copy
Return ==
    /\ pc = "loop"
    /\ idx > Len(sections)
    /\ returned' = Some(section_copy)
    /\ pc' = "returned"
    /\ UNCHANGED <<session, view, caller, usp_arg, copy_input, sections,
                   idx, research, strategy, initial_copy, section_copy, calls,
                   exc, catches, raised>>

\* A handler that hands back what was finished before the failure.
ExceptPartial ==
    /\ pc = "except"
    /\ raised' = Some(Wrap(exc[1]))
    /\ returned' = Some(section_copy)
    /\ catches' = catches + 1
    /\ pc' = "raised"
    /\ UNCHANGED <<session, view, caller, usp_arg, copy_input, sections,
                   idx, research, strategy, initial_copy, section_copy, calls,
                   exc>>

\* except Exception as e: raise Exception(f"Copy generation failed: {str(e)}")
Except ==
    /\ pc = "except"
    /\ raised' = Some(Wrap(exc[1]))
    /\ catches' = catches + 1
    /\ pc' = "raised"
    /\ UNCHANGED <<session, view, caller, usp_arg, copy_input, sections,
                   idx, research, strategy, initial_copy, section_copy, calls,
                   exc, returned>>

(***************************************************************************)
(* The page after generate_website_copy (frontend.py, lines 131-152).      *)
(***************************************************************************)
SaveError == <<"cannot write the file">>

\* The call returned: the results are stored, then saved; a failing
\* save_results is reported by the except branch, which returns.
FrontendStore ==
    /\ pc = "returned"
    /\ caller = "frontend"
    /\ session' = [generated_copy |-> returned[1], generation_complete |-> TRUE]
    /\ \E saved \in BOOLEAN :
          view' = IF saved THEN Display(session')
                  ELSE Rendered("error", <<ErrorPrefix>> \o SaveError)
    /\ pc' = "idle"
    /\ RunReset

\* An except branch that also forgets the stored results.
FrontendErrorReset ==
    /\ pc = "raised"
    /\ caller = "frontend"
    /\ view' = Rendered("error", <<ErrorPrefix>> \o raised[1])
    /\ session' = [generated_copy |-> <<>>, generation_complete |-> FALSE]
    /\ pc' = "idle"
    /\ RunReset

\* The call raised: st.error(f"Error generating copy: {str(e)}"); return
FrontendError ==
    /\ pc = "raised"
    /\ caller = "frontend"
    /\ view' = Rendered("error", <<ErrorPrefix>> \o raised[1])
    /\ pc' = "idle"
    /\ RunReset
    /\ UNCHANGED session

Next ==
    \/ DirectCall
    \/ DirectDone
    \/ FrontendGenerate
    \/ FrontendRerun
    \/ Research
    \/ Strategy
    \/ Draft
    \/ Edit
    \/ Return
    \/ Except
    \/ FrontendStore
    \/ FrontendError

Spec == Init /\ [][Next]_vars

(***************************************************************************)
(* Vocabulary of the properties.                                           *)
(***************************************************************************)
Positions == 1..Len(calls)

\* The fixed sequence of calls of a run over secs: research, strategy, then
\* draft and edit of each section in turn.
ExpectedCall(secs, k) ==
    IF k = 1 THEN [stage |-> "research", section |-> NoSection]
    ELSE IF k = 2 THEN [stage |-> "strategy", section |-> NoSection]
    ELSE IF k % 2 = 1 THEN [stage |-> "draft", section |-> secs[(k - 1) \div 2]]
    ELSE [stage |-> "edit", section |-> secs[(k - 2) \div 2]]

CallsOf(stage) == {k \in Positions : calls[k].stage = stage}

Failing == pc \in {"except", "raised"}

\* The position in secs of the first and of the last occurrence of a name.
FirstAt(secs, name) ==
    CHOOSE j \in 1..Len(secs) :
        secs[j] = name /\ \A i \in 1..(j - 1) : secs[i] # name

LastAt(secs, name) ==
    CHOOSE j \in 1..Len(secs) :
        secs[j] = name /\ \A i \in (j + 1)..Len(secs) : secs[i] # name

Names(secs) == {secs[j] : j \in 1..Len(secs)}

(***************************************************************************)
(* C1.                                                                     *)
(***************************************************************************)
\* C1, as stated: a successful run over a non-empty sections returns a
\* mapping with exactly one entry per element of sections, the keys in the
\* order of sections.
C1_OneEntryPerElement ==
    (pc = "returned" /\ sections # <<>>) =>
        DictKeys(returned[1]) = sections

\* C1, amended: a successful run over a non-empty sections returns a mapping
\* with exactly one entry per distinct name of sections, without duplicate
\* keys, the keys in the order in which the names first occur in sections;
\* the value under a name is the editor's output for its last occurrence.
C1_OneEntryPerName ==
    (pc = "returned" /\ sections # <<>>) =>
        LET d == returned[1]
        IN /\ {d[j].k : j \in 1..Len(d)} = Names(sections)
           /\ Len(d) = Cardinality(Names(sections))
           /\ \A a, b \in 1..Len(d) :
                 a < b => FirstAt(sections, d[a].k) < FirstAt(sections, d[b].k)
           /\ \A j \in 1..Len(d) :
                 d[j].v = calls[2 + 2 * LastAt(sections, d[j].k)].text

\* A successful run over sections that repeat a name.
C1_Witness ==
    /\ pc = "returned"
    /\ Len(sections) = 2
    /\ sections[1] = sections[2]

(***************************************************************************)
(* C2.                                                                     *)
(***************************************************************************)
\* C2: the calls of a run are made one at a time in the order research,
\* strategy, draft(s1), edit(s1), ..., draft(sn), edit(sn): every call made
\* so far is the call the fixed sequence has at its position, every call
\* before the latest one has completed with a reply, and a successful run
\* has made exactly 2 + 2n calls.
C2_CallOrder ==
    /\ Len(calls) <= 2 + 2 * Len(sections)
    /\ \A k \in Positions :
          /\ calls[k].stage = ExpectedCall(sections, k).stage
          /\ calls[k].section = ExpectedCall(sections, k).section
          /\ k < Len(calls) => calls[k].ok
    /\ pc = "returned" =>
          /\ Len(calls) = 2 + 2 * Len(sections)
          /\ Cardinality(CallsOf("research")) = 1
          /\ Cardinality(CallsOf("strategy")) = 1

\* A successful run over two sections: six calls.
C2_Witness ==
    /\ pc = "returned"
    /\ Len(sections) = 2
    /\ Len(calls) = 6

(***************************************************************************)
(* C3.                                                                     *)
(***************************************************************************)
\* C3: the strategy call is handed the research call's reply, every draft
\* call is handed the strategy call's reply and its own section, every edit
\* call is handed the reply of the draft call of the same section made just
\* before it, a successful run has drafted and edited once per element of
\* sections, and the value stored under a name is the reply of the latest
\* edit call of that name, not a draft.
C3_Threading ==
    /\ \A k \in Positions :
          /\ calls[k].stage = "strategy" =>
                /\ calls[1].stage = "research"
                /\ calls[k].args.research = calls[1].text
          /\ calls[k].stage = "draft" =>
                /\ calls[2].stage = "strategy"
                /\ calls[k].args.strategy = calls[2].text
                /\ calls[k].args.section = calls[k].section
          /\ calls[k].stage = "edit" =>
                /\ k > 1
                /\ calls[k - 1].stage = "draft"
                /\ calls[k - 1].section = calls[k].section
                /\ calls[k - 1].ok
                /\ calls[k].args.copy = calls[k - 1].text
    /\ \A j \in 1..Len(section_copy) :
          \E k \in CallsOf("edit") :
             /\ calls[k].ok
             /\ calls[k].section = section_copy[j].k
             /\ calls[k].text = section_copy[j].v
             /\ \A m \in CallsOf("edit") :
                   (m > k /\ calls[m].ok) => calls[m].section # section_copy[j].k
    /\ pc = "returned" =>
          /\ Cardinality(CallsOf("draft")) = Len(sections)
          /\ Cardinality(CallsOf("edit")) = Len(sections)
          /\ returned[1] = section_copy

\* A successful run over two different sections.
C3_Witness ==
    /\ pc = "returned"
    /\ Len(sections) = 2
    /\ sections[1] # sections[2]
    /\ Len(returned[1]) = 2

(***************************************************************************)
(* C4.                                                                     *)
(***************************************************************************)
\* C4: a run in which a service call failed raises and returns no mapping,
\* not even the entries finished before the failure; a run that returns a
\* mapping raised nothing, had no failing call and has an entry for every
\* requested section.
C4_AllOrNothing ==
    /\ (\E k \in Positions : ~calls[k].ok) => (Failing /\ returned = None)
    /\ pc = "raised" => (raised # None /\ returned = None)
    /\ returned # None =>
          /\ pc = "returned"
          /\ raised = None
          /\ \A k \in Positions : calls[k].ok
          /\ \A j \in 1..Len(sections) : HasKey(returned[1], sections[j])

\* A run that failed after a section had been drafted and edited.
C4_Witness ==
    /\ pc = "raised"
    /\ section_copy # <<>>
    /\ ~calls[Len(calls)].ok

(***************************************************************************)
(* C5.                                                                     *)
(***************************************************************************)
\* C5: a failed call is the last call of its run: it stands at its place in
\* the fixed sequence, nothing is called after it, and the run is on its
\* way out through the except branch.
C5_AbortsAtFailure ==
    \A k \in Positions :
        ~calls[k].ok =>
            /\ k = Len(calls)
            /\ Failing
            /\ calls[k].stage = ExpectedCall(sections, k).stage
            /\ \A m \in 1..(k - 1) : calls[m].ok

\* A run whose first draft failed while another section was still to come.
C5_Witness ==
    /\ pc = "raised"
    /\ Len(sections) = 2
    /\ Len(calls) = 3
    /\ ~calls[3].ok

(***************************************************************************)
(* C6.                                                                     *)
(***************************************************************************)
\* C6, as stated: when the 3rd call of a run fails, that call is the
\* strategy stage's, nothing is returned and no draft or edit call was made.
C6_ThirdCallIsStrategy ==
    (pc = "raised" /\ Len(calls) = 3 /\ ~calls[3].ok) =>
        /\ calls[3].stage = "strategy"
        /\ returned = None
        /\ CallsOf("draft") = {}
        /\ CallsOf("edit") = {}

\* C6, amended: the strategy stage's call is the 2nd call of a run; when it
\* fails, the run raises, nothing is returned, no entry was stored and no
\* draft or edit call was made.
C6_StrategyFailure ==
    \A k \in Positions :
        (calls[k].stage = "strategy" /\ ~calls[k].ok) =>
            /\ k = 2
            /\ Failing
            /\ pc = "raised" => raised # None
            /\ returned = None
            /\ section_copy = <<>>
            /\ CallsOf("draft") = {}
            /\ CallsOf("edit") = {}

\* A run over some sections whose strategy call failed.
C6_Witness ==
    /\ pc = "raised"
    /\ sections # <<>>
    /\ Len(calls) = 2
    /\ ~calls[2].ok

(***************************************************************************)
(* C7.                                                                     *)
(***************************************************************************)
\* C7: a run whose product or target audience is empty makes no service
\* call and returns nothing.
C7_EmptyFieldsRejected ==
    (pc # "idle" /\ (copy_input.product = "" \/ copy_input.target_audience = "")) =>
        (calls = <<>> /\ pc # "returned")

(***************************************************************************)
(* C8.                                                                     *)
(***************************************************************************)
\* C8: the exception in flight inside the run is the failed call's own,
\* untouched by the stage; it enters one except handler, and the exception
\* that leaves the run has the message "Copy generation failed: " followed
\* by the description of the cause, with the prefix in it once.
C8_WrappedOnce ==
    /\ pc = "except" =>
          /\ catches = 0
          /\ ~calls[Len(calls)].ok
          /\ exc = Some(calls[Len(calls)].err)
    /\ pc = "raised" =>
          LET msg == raised[1]
              cause == calls[Len(calls)].err
          IN /\ catches = 1
             /\ ~calls[Len(calls)].ok
             /\ Len(msg) = Len(cause) + 1
             /\ msg[1] = FailedPrefix
             /\ \A i \in 1..Len(cause) : msg[i + 1] = cause[i]
             /\ Cardinality({i \in 1..Len(msg) : msg[i] = FailedPrefix}) = 1
    /\ ~Failing => (catches = 0 /\ raised = None /\ exc = None)

\* A run that raised because an edit call failed.
C8_Witness ==
    /\ pc = "raised"
    /\ calls[Len(calls)].stage = "edit"
    /\ ~calls[Len(calls)].ok

(***************************************************************************)
(* C9.                                                                     *)
(***************************************************************************)
\* The list a unique_selling_points argument stands for.
Given(arg) == IF arg.kind = "list" THEN arg.val ELSE <<>>

\* C9: whatever the unique_selling_points argument (left out, None, [], a
\* list of k strings), the field of the CopyInput is a list, never None,
\* with the given elements, and the USP text in the prompts of the strategy
\* and drafting stages has the elements in order with ", " between
\* neighbours: no token for no element, the element alone for one, and
\* never the token None.
C9_UspsJoined ==
    /\ copy_input.unique_selling_points # None
    /\ Len(copy_input.unique_selling_points) = 1
    /\ copy_input.unique_selling_points[1] = Given(usp_arg)
    /\ \A k \in CallsOf("strategy") \cup CallsOf("draft") :
          LET t == calls[k].args.usps
              g == Given(usp_arg)
          IN /\ g = <<>> => t = <<>>
             /\ Len(g) = 1 => t = <<g[1]>>
             /\ Len(g) >= 1 => Len(t) + 1 = 2 * Len(g)
             /\ \A i \in 1..Len(t) :
                   /\ i % 2 = 1 => t[i] = g[(i + 1) \div 2]
                   /\ i % 2 = 0 => t[i] = ", "
                   /\ t[i] # "None"

\* A drafting prompt built from a list of two USPs.
C9_Witness ==
    /\ CallsOf("draft") # {}
    /\ usp_arg.kind = "list"
    /\ Len(usp_arg.val) = 2

\* A strategy prompt built for a CopyInput that was given None.
C9_WitnessNone ==
    /\ CallsOf("strategy") # {}
    /\ usp_arg.kind = "None"

====
